---- MODULE Spec2Model ----
(***************************************************************************)
(* A model of csvdb (itsmontoya/csvdb): a file-backed keyed store of csv   *)
(* rows with a cache-aside read path, an append path, a merge read, and    *)
(* two single-flight background jobs (purge, backup).                      *)
(*                                                                         *)
(* Files hold bytes.  A byte is a one-character string, a cell is a        *)
(* sequence of bytes, a row is a sequence of cells, and the csv writer and *)
(* the line reader are modelled on bytes, as encoding/csv and bufio do.    *)
(***************************************************************************)
EXTENDS Integers, Sequences, FiniteSets, TLC

(* ------------------------------ bounds --------------------------------- *)
\* number of API calls started in one behaviour
MaxCalls == 2
\* largest value of the clock
MaxTime == 3

(* ---------------------------- program constants ------------------------ *)
\* bufio.NewReader's default buffer size: the most ReadLine returns at once
BufSize == 4096

(* ------------------------------ value sets ----------------------------- *)
Key == {"a", "b"}
NoKey == "-"
\* filepath.Walk visits the directory in lexical order of the file names
KeyOrder == <<"a", "b">>

LF == "\n"
COMMA == ","
QUOTE == "\""

\* entries (Keys() and Values() of a caller's record)
EntPlain1 == [keys |-> << <<"f">>, <<"g">> >>, vals |-> << <<"1">>, <<"x">> >>]
EntPlain2 == [keys |-> << <<"f">>, <<"g">> >>, vals |-> << <<"2">>, <<>> >>]
EntQuoted == [keys |-> << <<"h", LF, "i">> >>, vals |-> << <<"3", COMMA>> >>]
Entry == {EntPlain1, EntPlain2, EntQuoted}

\* the entry lists a caller passes
EntrySeqs == {<<>>, <<EntPlain1>>, <<EntPlain2, EntPlain1>>, <<EntQuoted>>}
\* the key lists a caller passes to GetMerged
KeySeqs == {<<>>, <<"a">>, <<"a", "b">>, <<"b", "a">>, <<"a", "a">>}

Client == {"c1", "c2"}
Job == {"j1", "j2"}
Proc == Client \cup Job
None == "none"

(* ------------------------------ byte helpers --------------------------- *)
RECURSIVE Concat(_)
Concat(ss) == IF ss = <<>> THEN <<>> ELSE Head(ss) \o Concat(Tail(ss))

Drop(s, n) == SubSeq(s, n + 1, Len(s))

(* ------------------------------ csv.Writer ----------------------------- *)
fieldNeedsQuotes(field) ==
    /\ field # <<>>
    /\ \/ \E i \in 1..Len(field) : field[i] \in {COMMA, QUOTE, LF, "\r"}
       \/ field[1] \in {" ", "\t"}

RECURSIVE escapeField(_)
escapeField(field) ==
    IF field = <<>> THEN <<>>
    ELSE (IF Head(field) = QUOTE THEN <<QUOTE, QUOTE>> ELSE <<Head(field)>>)
         \o escapeField(Tail(field))

writeField(field) ==
    IF fieldNeedsQuotes(field) THEN <<QUOTE>> \o escapeField(field) \o <<QUOTE>>
    ELSE field

RECURSIVE writeFields(_)
writeFields(record) ==
    IF record = <<>> THEN <<>>
    ELSE IF Len(record) = 1 THEN writeField(record[1])
    ELSE writeField(record[1]) \o <<COMMA>> \o writeFields(Tail(record))

\* csv.Writer.Write: the fields separated by commas, then a newline
csvWrite(record) == writeFields(record) \o <<LF>>

RECURSIVE csvWriteAll(_)
csvWriteAll(records) ==
    IF records = <<>> THEN <<>>
    ELSE csvWrite(Head(records)) \o csvWriteAll(Tail(records))

(* ------------------------------ bufio.Reader --------------------------- *)
\* number of bytes one ReadLine call consumes from data: up to and including
\* the first newline, but never more than the buffer holds
RECURSIVE lineEnd(_, _)
lineEnd(data, i) ==
    IF i > Len(data) THEN Len(data)
    ELSE IF i > BufSize THEN BufSize
    ELSE IF data[i] = LF THEN i
    ELSE lineEnd(data, i + 1)

ReadLine(data) ==
    IF data = <<>> THEN [err |-> "EOF", rest |-> <<>>]
    ELSE [err |-> "nil", rest |-> Drop(data, lineEnd(data, 1))]

(* ------------------------------ csv.Reader ----------------------------- *)
\* A field that starts at data[i] and has no opening quote: it ends before
\* the next comma or newline.  A quote inside it is ErrBareQuote.
RECURSIVE readBare(_, _, _)
readBare(data, i, acc) ==
    IF i > Len(data) THEN [err |-> "nil", field |-> acc, next |-> i, more |-> FALSE]
    ELSE IF data[i] = LF THEN [err |-> "nil", field |-> acc, next |-> i + 1, more |-> FALSE]
    ELSE IF data[i] = COMMA THEN [err |-> "nil", field |-> acc, next |-> i + 1, more |-> TRUE]
    ELSE IF data[i] = QUOTE THEN [err |-> "ErrBareQuote", field |-> acc, next |-> i, more |-> FALSE]
    ELSE readBare(data, i + 1, Append(acc, data[i]))

\* A quoted field whose opening quote is before data[i]: a doubled quote is
\* a quote, a newline is part of the field, and the closing quote must be
\* followed by a comma, a newline or the end of the data.
RECURSIVE readQuoted(_, _, _)
readQuoted(data, i, acc) ==
    IF i > Len(data) THEN [err |-> "ErrQuote", field |-> acc, next |-> i, more |-> FALSE]
    ELSE IF data[i] # QUOTE THEN readQuoted(data, i + 1, Append(acc, data[i]))
    ELSE IF i = Len(data) THEN [err |-> "nil", field |-> acc, next |-> i + 1, more |-> FALSE]
    ELSE IF data[i + 1] = QUOTE THEN readQuoted(data, i + 2, Append(acc, QUOTE))
    ELSE IF data[i + 1] = COMMA THEN [err |-> "nil", field |-> acc, next |-> i + 2, more |-> TRUE]
    ELSE IF data[i + 1] = LF THEN [err |-> "nil", field |-> acc, next |-> i + 2, more |-> FALSE]
    ELSE [err |-> "ErrQuote", field |-> acc, next |-> i, more |-> FALSE]

RECURSIVE readFields(_, _, _)
readFields(data, i, acc) ==
    LET f == IF i <= Len(data) /\ data[i] = QUOTE
             THEN readQuoted(data, i + 1, <<>>)
             ELSE readBare(data, i, <<>>)
    IN IF f.err # "nil" THEN [err |-> f.err, rec |-> <<>>, next |-> f.next]
       ELSE IF f.more THEN readFields(data, f.next, Append(acc, f.field))
       ELSE [err |-> "nil", rec |-> Append(acc, f.field), next |-> f.next]

\* csv.Reader.Read from data[i]: empty lines are skipped, the end of the
\* data is io.EOF
RECURSIVE csvRead(_, _)
csvRead(data, i) ==
    IF i > Len(data) THEN [err |-> "EOF", rec |-> <<>>, next |-> i]
    ELSE IF data[i] = LF THEN csvRead(data, i + 1)
    ELSE readFields(data, i, <<>>)

\* the records of data, up to the end or the first record that does not parse
RECURSIVE csvRecords(_, _)
csvRecords(data, i) ==
    LET r == csvRead(data, i)
    IN IF r.err # "nil" THEN <<>> ELSE <<r.rec>> \o csvRecords(data, r.next)

(* ------------------------------ state ---------------------------------- *)
VARIABLES
    files,     \* the store's directory: per key, the local .csv file
    markers,   \* per key, the <file>.exported marker
    remote,    \* the backend's objects, per key
    b,         \* DB.b: TRUE when a backend is configured (non-nil)
    ttl,       \* Options.FileTTL
    openFile,  \* the package's openFile: "os" (os.OpenFile), or a replacement
               \* that hands back a closed handle ("closed") or an error ("error")
    disk,      \* "ok", or "full": writes to local files fail
    ctx,       \* DB.ctx: "live", or "done" once DB.cancel was called
    now,       \* the clock (time.Now)
    mux,       \* DB.mux: the process holding it, or None
    pmux,      \* DB.pmux
    emux,      \* DB.emux
    pc,        \* per process: its position in the call it runs
    loc,       \* per process: arguments, locals and results of that call
    hist,      \* the calls that returned, most recent first
    ncalls     \* calls started so far

vars == <<files, markers, remote, b, ttl, openFile, disk, ctx, now, mux, pmux, emux, pc, loc, hist, ncalls>>

\* what no operation changes once the store is made
conf == <<b, ttl, openFile, disk>>

NoFile == [ex |-> FALSE, data |-> <<>>, mtime |-> 0]
NoMarker == [ex |-> FALSE, mtime |-> 0]
NoObject == [ex |-> FALSE, data |-> <<>>]
NoHandle == [key |-> NoKey, off |-> 0, det |-> FALSE, data |-> <<>>, closed |-> FALSE]

\* the locals of a process that runs no call.  Of a call they hold
\*   p, op, key, keys, es, fn   who runs which method with which arguments
\*   i        the index of the key or listed file the loop is at
\*   h        the open file handle
\*   hw       getMergedFile's headerWritten
\*   size     info.Size() as writeEntries read it
\*   list     the file names getExpired / getExportable returned
\*   out, err what the call wrote to its io.Writer, and the error it returns
\*   seen     the rows Rows.ForEach passed to the visit
\* and, for the properties,
\*   trace    how each key of a read was resolved: "hit", "nobackend", "ok",
\*            "notfound", "failed"
\*   acted    the files a purge removed / a backup passed to Export
\*   marked   the files a backup wrote the marker of
\*   busy     whether the same job was running when this call started
\*   at, pre  the time of the call (of the scan, for purge) and the
\*            directory when the call started
\*   ctx      the state of the store's context when the call started
Idle == [p |-> None, op |-> None, key |-> NoKey, keys |-> <<>>, i |-> 0,
         es |-> <<>>, fn |-> None, out |-> <<>>, err |-> "nil",
         h |-> NoHandle, hw |-> FALSE, size |-> 0, trace |-> <<>>,
         list |-> <<>>, acted |-> <<>>, marked |-> <<>>, seen |-> <<>>,
         busy |-> FALSE, at |-> 0, pre |-> [k \in Key |-> NoFile], ctx |-> "live"]

\* the bytes of an object of the backend: a header row and one value row
RemoteBytes == csvWrite(EntPlain1.keys) \o csvWrite(EntPlain1.vals)

(* ------------------------------ file handles --------------------------- *)
\* the prefixes of a sequence of bytes: what a failed Import, or a failed
\* write, may have put into a file
Prefixes(data) == {SubSeq(data, 1, n) : n \in 0..Len(data)}

\* os.Open / os.Create / openFile: a handle on the file now at the key's path
openHandle(k) == [key |-> k, off |-> 0, det |-> FALSE, data |-> <<>>, closed |-> FALSE]

\* the bytes of the file a handle refers to; a handle whose file was unlinked
\* keeps the unlinked file's bytes
hdata(h) == IF h.det THEN h.data ELSE files[h.key].data

\* the directory after `bytes` are written at the end of the handle's file
filesAfterWrite(h, bytes) ==
    IF h.det \/ bytes = <<>> THEN files
    ELSE [files EXCEPT ![h.key] = [@ EXCEPT !.data = @ \o bytes, !.mtime = now]]

\* the handle after that write: its offset is at the end of the file
handleAfterWrite(h, bytes) ==
    [h EXCEPT !.data = IF h.det THEN @ \o bytes ELSE @,
              !.off = Len(hdata(h)) + Len(bytes)]

\* os.Remove(filename): unlinks the file; open handles keep its bytes
detach(l, k) ==
    IF l.h.key = k /\ ~l.h.det
    THEN [l EXCEPT !.h = [@ EXCEPT !.det = TRUE, !.data = files[k].data]]
    ELSE l

locAfterRemove(k) == [q \in Proc |-> detach(loc[q], k)]

(* ------------------------------ calls ---------------------------------- *)
\* a call starts: process p runs operation op; `pre` is the directory and
\* `at` the time it starts with
begin(p, op) ==
    [Idle EXCEPT !.p = p, !.op = op, !.at = now, !.pre = files, !.ctx = ctx]

\* a call returns: it is recorded, and the process is idle again
return(p, rec) ==
    /\ hist' = <<[rec EXCEPT !.h = NoHandle]>> \o hist
    /\ pc' = [pc EXCEPT ![p] = "idle"]

canCall(p) == pc[p] = "idle" /\ ncalls < MaxCalls

\* (mutant) Lock that does not wait for the holder
muxFreeAlways == TRUE

\* d.mux.Lock() waits until no process holds the lock
muxFree == mux = None

\* d.mux.Lock(), then on to nextpc
Lock(p, at, nextpc) ==
    /\ pc[p] = at
    /\ muxFree
    /\ mux' = p
    /\ pc' = [pc EXCEPT ![p] = nextpc]
    /\ UNCHANGED <<files, markers, remote, conf, ctx, now, pmux, emux, loc, hist, ncalls>>

\* the deferred d.mux.Unlock() of a call that returns
UnlockReturn(p, at) ==
    /\ pc[p] = at
    /\ mux' = None
    /\ return(p, loc[p])
    /\ loc' = [loc EXCEPT ![p] = Idle]
    /\ UNCHANGED <<files, markers, remote, conf, ctx, now, pmux, emux, ncalls>>

(* ------------------------------ DB.Append ------------------------------ *)
\* (mutant) Append that opens the file before it looks at the entries
AppendEmptyCreates(p, k) ==
    /\ canCall(p)
    /\ ncalls' = ncalls + 1
    /\ files' = IF files[k].ex THEN files
                ELSE [files EXCEPT ![k] = [ex |-> TRUE, data |-> <<>>, mtime |-> now]]
    /\ return(p, [begin(p, "Append") EXCEPT !.key = k])
    /\ loc' = [loc EXCEPT ![p] = Idle]
    /\ UNCHANGED <<markers, remote, conf, ctx, now, mux, pmux, emux>>

\* Append with no entries returns nil before taking the lock
AppendEmpty(p, k) ==
    /\ canCall(p)
    /\ ncalls' = ncalls + 1
    /\ return(p, [begin(p, "Append") EXCEPT !.key = k])
    /\ loc' = [loc EXCEPT ![p] = Idle]
    /\ UNCHANGED <<files, markers, remote, conf, ctx, now, mux, pmux, emux>>

AppendCall(p, k, es) ==
    /\ canCall(p)
    /\ es # <<>>
    /\ ncalls' = ncalls + 1
    /\ loc' = [loc EXCEPT ![p] = [begin(p, "Append") EXCEPT !.key = k, !.es = es]]
    /\ pc' = [pc EXCEPT ![p] = "ap_lock"]
    /\ UNCHANGED <<files, markers, remote, conf, ctx, now, mux, pmux, emux, hist>>

AppendLock(p) == Lock(p, "ap_lock", "ap_open")

\* what openFile(filename, O_CREATE|O_RDWR|O_APPEND, 0644) hands back: the
\* error and whether the handle is closed.  The replacement of the test
\* "fail, closed file" opens the file, closes it, and returns it with the
\* nil error of the Close
openFileResult ==
    [err |-> IF openFile = "error" THEN "ErrOpen" ELSE "nil",
     closed |-> openFile = "closed"]

\* getOrCreate returns what openFile returned
getOrCreateErr(r) == r.err

\* getOrCreate, and the caller's `if f, err = getOrCreate(filename); err != nil`
getOrCreate(p, nextpc, errpc) ==
    LET k == loc[p].key
        r == openFileResult
        err == getOrCreateErr(r)
    IN /\ files' = IF files[k].ex \/ openFile = "error" THEN files
                   ELSE [files EXCEPT ![k] = [ex |-> TRUE, data |-> <<>>, mtime |-> now]]
       /\ loc' = [loc EXCEPT ![p] = [@ EXCEPT
                     !.h = IF r.err # "nil" THEN NoHandle
                           ELSE [openHandle(k) EXCEPT !.closed = r.closed],
                     !.err = err]]
       /\ pc' = [pc EXCEPT ![p] = IF err # "nil" THEN errpc ELSE nextpc]

AppendOpen(p) ==
    /\ pc[p] = "ap_open"
    /\ getOrCreate(p, "ap_stat", "ap_ret")
    /\ UNCHANGED <<markers, remote, conf, ctx, now, mux, pmux, emux, hist, ncalls>>

\* writeEntries, f.Stat(): the size of the file before the write; Stat of a
\* closed handle fails
statSize(p, nextpc, errpc) ==
    /\ IF loc[p].h.closed
       THEN /\ loc' = [loc EXCEPT ![p] = [@ EXCEPT !.err = "ErrClosed"]]
            /\ pc' = [pc EXCEPT ![p] = errpc]
       ELSE /\ loc' = [loc EXCEPT ![p] = [@ EXCEPT !.size = Len(hdata(loc[p].h))]]
            /\ pc' = [pc EXCEPT ![p] = nextpc]
    /\ UNCHANGED <<files, markers, remote, conf, ctx, now, mux, pmux, emux, hist, ncalls>>

AppendStat(p) == pc[p] = "ap_stat" /\ statSize(p, "ap_write", "ap_ret")

\* (mutant) the condition of writeHeader inverted
writeHeaderInverted(created, e) == IF created THEN <<>> ELSE csvWrite(e.keys)

\* writeHeader: the header row, only into a file that was empty
writeHeader(created, e) == IF ~created THEN <<>> ELSE csvWrite(e.keys)

RECURSIVE writeValues(_)
writeValues(es) ==
    IF es = <<>> THEN <<>> ELSE csvWrite(Head(es).vals) \o writeValues(Tail(es))

\* writeEntries: the bytes written to a file that had the given size
entryBytes(size, es) ==
    LET isNew == size = 0
    IN writeHeader(isNew, es[1]) \o writeValues(es)

\* the bytes that reach the file when the csv.Writer's buffer is written
\* out: all of them, or on a full disk any shorter prefix
written(bytes) ==
    IF disk = "ok" THEN {bytes} ELSE Prefixes(bytes) \ {bytes}

\* the error writeEntries returns.  w.Write puts the row into the
\* csv.Writer's buffer of BufSize bytes, and fails only when the buffer ran
\* over and writing it out failed; the error of the closing w.Flush() is
\* not looked at (w.Error() is never called)
writeErr(bytes) ==
    IF disk = "full" /\ Len(bytes) > BufSize THEN "ErrWrite" ELSE "nil"

\* writeEntries from the Seek on: header, rows, Flush
writeEntries(p, nextpc) ==
    LET h == loc[p].h
        bytes == entryBytes(loc[p].size, loc[p].es)
    IN /\ \E part \in written(bytes) :
            /\ files' = filesAfterWrite(h, part)
            /\ loc' = [loc EXCEPT ![p] = [@ EXCEPT !.h = handleAfterWrite(h, part),
                                                  !.err = writeErr(bytes)]]
       /\ pc' = [pc EXCEPT ![p] = nextpc]
       /\ UNCHANGED <<markers, remote, conf, ctx, now, mux, pmux, emux, hist, ncalls>>

AppendWrite(p) == pc[p] = "ap_write" /\ writeEntries(p, "ap_ret")

AppendRet(p) == UnlockReturn(p, "ap_ret")

(* ------------------------------ cache-aside read ----------------------- *)
\* (mutant) the nil check of the backend never fires
backendNotSetNever == FALSE

\* attemptDownload, `if d.b == nil`
backendNotSet == ~b

\* the error attemptDownload returns when Import reported not-found: the
\* named result err still holds the backend's own error
notFoundErr == "ErrNotExist"

\* getOrDownload and the first half of attemptDownload:
\*   the local file exists            -> a handle on it
\*   no local file, no backend        -> ErrBackendNotSet
\*   no local file, backend           -> os.Create, then Import
getOrDownload(p, k, hitpc, importpc, errpc) ==
    IF files[k].ex
    THEN /\ loc' = [loc EXCEPT ![p] = [@ EXCEPT !.h = openHandle(k), !.err = "nil",
                                                !.trace = Append(@, "hit")]]
         /\ pc' = [pc EXCEPT ![p] = hitpc]
         /\ UNCHANGED files
    ELSE IF backendNotSet
    THEN /\ loc' = [loc EXCEPT ![p] = [@ EXCEPT !.err = "ErrBackendNotSet",
                                                !.trace = Append(@, "nobackend")]]
         /\ pc' = [pc EXCEPT ![p] = errpc]
         /\ UNCHANGED files
    ELSE /\ files' = [files EXCEPT ![k] = [ex |-> TRUE, data |-> <<>>, mtime |-> now]]
         /\ loc' = [loc EXCEPT ![p] = [@ EXCEPT !.h = openHandle(k)]]
         /\ pc' = [pc EXCEPT ![p] = importpc]

\* (mutant) the created file is not removed
removeEmptyKept(k) == files

\* the file a not-found download leaves: attemptDownload closes the handle
\* and removes the file it created
removeEmpty(k) == [files EXCEPT ![k] = NoFile]

\* (mutant) the file of a failed download is removed
failedRemoved(h, part) == [files EXCEPT ![h.key] = NoFile]

\* the directory after Import failed with an error that is not not-found:
\* attemptDownload returns at once, the file keeps what Import wrote
failedKept(h, part) == filesAfterWrite(h, part)

\* d.b.Import and the rest of attemptDownload.  The backend writes the
\* object into the created file, reports not-found, or fails otherwise.
attemptDownload(p, k, okpc, errpc) ==
    LET h == loc[p].h IN
    \/ \* Import returns nil: the object's bytes are in the file, and the
       \* handle's offset is behind them
       /\ remote[k].ex
       /\ files' = filesAfterWrite(h, remote[k].data)
       /\ loc' = [loc EXCEPT ![p] = [@ EXCEPT !.h = handleAfterWrite(h, remote[k].data),
                                              !.err = "nil",
                                              !.trace = Append(@, "ok")]]
       /\ pc' = [pc EXCEPT ![p] = okpc]
    \/ \* Import returns an error for which os.IsNotExist holds
       /\ ~remote[k].ex
       /\ files' = removeEmpty(k)
       /\ loc' = [locAfterRemove(k) EXCEPT ![p] = [loc[p] EXCEPT !.h = NoHandle,
                                              !.err = notFoundErr,
                                              !.trace = Append(@, "notfound")]]
       /\ pc' = [pc EXCEPT ![p] = errpc]
    \/ \* Import returns another error, after writing some of the bytes
       \E part \in Prefixes(remote[k].data) :
           /\ files' = failedKept(h, part)
           /\ loc' = [loc EXCEPT ![p] = [@ EXCEPT !.h = NoHandle,
                                                  !.err = "ErrBackend",
                                                  !.trace = Append(@, "failed")]]
           /\ pc' = [pc EXCEPT ![p] = errpc]

\* io.Copy(w, f): the bytes from the handle's offset to the end of the file
copyFrom(h) == Drop(hdata(h), h.off)

(* ------------------------------ DB.Get --------------------------------- *)
GetCall(p, k) ==
    /\ canCall(p)
    /\ ncalls' = ncalls + 1
    /\ loc' = [loc EXCEPT ![p] = [begin(p, "Get") EXCEPT !.key = k]]
    /\ pc' = [pc EXCEPT ![p] = "get_lock"]
    /\ UNCHANGED <<files, markers, remote, conf, ctx, now, mux, pmux, emux, hist>>

\* (mutant) Get that goes on without taking the lock
GetNoLock(p) ==
    /\ pc[p] = "get_lock"
    /\ pc' = [pc EXCEPT ![p] = "get_open"]
    /\ UNCHANGED <<files, markers, remote, conf, ctx, now, mux, pmux, emux, loc, hist, ncalls>>

GetLock(p) == Lock(p, "get_lock", "get_open")

GetOpen(p) ==
    /\ pc[p] = "get_open"
    /\ getOrDownload(p, loc[p].key, "get_copy", "get_import", "get_ret")
    /\ UNCHANGED <<markers, remote, conf, ctx, now, mux, pmux, emux, hist, ncalls>>

GetImport(p) ==
    /\ pc[p] = "get_import"
    /\ attemptDownload(p, loc[p].key, "get_copy", "get_ret")
    /\ UNCHANGED <<markers, remote, conf, ctx, now, mux, pmux, emux, hist, ncalls>>

GetCopy(p) ==
    /\ pc[p] = "get_copy"
    /\ loc' = [loc EXCEPT ![p] = [@ EXCEPT !.out = @ \o copyFrom(loc[p].h),
                                           !.h = NoHandle]]
    /\ pc' = [pc EXCEPT ![p] = "get_ret"]
    /\ UNCHANGED <<files, markers, remote, conf, ctx, now, mux, pmux, emux, hist, ncalls>>

GetRet(p) == UnlockReturn(p, "get_ret")

(* ------------------------------ DB.GetMerged --------------------------- *)
\* getMergedFile's loop: the position after key i is done
afterKey(l) == IF l.i + 1 > Len(l.keys) THEN "gm_ret" ELSE "gm_open"

GetMergedCall(p, keys) ==
    /\ canCall(p)
    /\ ncalls' = ncalls + 1
    /\ loc' = [loc EXCEPT ![p] = [begin(p, "GetMerged") EXCEPT !.keys = keys, !.i = 1]]
    /\ pc' = [pc EXCEPT ![p] = "gm_lock"]
    /\ UNCHANGED <<files, markers, remote, conf, ctx, now, mux, pmux, emux, hist>>

GetMergedLock(p) ==
    Lock(p, "gm_lock", IF loc[p].keys = <<>> THEN "gm_ret" ELSE "gm_open")

\* appendFile's switch on the error of getOrDownload: the errors it turns
\* into "skip this key"
appendFileSkips(err) == err \in {"ErrEntryNotFound", "ErrBackendNotSet"}

GetMergedOpen(p) ==
    /\ pc[p] = "gm_open"
    /\ getOrDownload(p, loc[p].keys[loc[p].i], "gm_copy", "gm_import", "gm_err")
    /\ UNCHANGED <<markers, remote, conf, ctx, now, mux, pmux, emux, hist, ncalls>>

GetMergedImport(p) ==
    /\ pc[p] = "gm_import"
    /\ attemptDownload(p, loc[p].keys[loc[p].i], "gm_copy", "gm_err")
    /\ UNCHANGED <<markers, remote, conf, ctx, now, mux, pmux, emux, hist, ncalls>>

\* appendFile after getOrDownload returned an error: skip the key and go on
\* with the next one, or return the error, which ends the merge
GetMergedErr(p) ==
    /\ pc[p] = "gm_err"
    /\ IF appendFileSkips(loc[p].err)
       THEN /\ loc' = [loc EXCEPT ![p] = [@ EXCEPT !.err = "nil", !.i = @ + 1]]
            /\ pc' = [pc EXCEPT ![p] = afterKey(loc[p])]
       ELSE /\ pc' = [pc EXCEPT ![p] = "gm_ret"]
            /\ UNCHANGED loc
    /\ UNCHANGED <<files, markers, remote, conf, ctx, now, mux, pmux, emux, hist, ncalls>>

\* appendFile on a resolved file: what it writes of the bytes the handle
\* still has to read, and the error it returns
appendFile(writeHdr, data) ==
    IF ~writeHdr
    THEN LET line == ReadLine(data)
         IN IF line.err # "nil" THEN [err |-> line.err, bytes |-> <<>>]
            ELSE [err |-> "nil", bytes |-> line.rest]
    ELSE [err |-> "nil", bytes |-> data]

GetMergedCopy(p) ==
    /\ pc[p] = "gm_copy"
    /\ LET l == loc[p]
           r == appendFile(~l.hw, copyFrom(l.h))
       IN IF r.err # "nil"
          THEN /\ loc' = [loc EXCEPT ![p] = [@ EXCEPT !.err = r.err, !.h = NoHandle]]
               /\ pc' = [pc EXCEPT ![p] = "gm_ret"]
          ELSE /\ loc' = [loc EXCEPT ![p] = [@ EXCEPT !.out = @ \o r.bytes, !.hw = TRUE,
                                                      !.i = @ + 1, !.h = NoHandle]]
               /\ pc' = [pc EXCEPT ![p] = afterKey(l)]
    /\ UNCHANGED <<files, markers, remote, conf, ctx, now, mux, pmux, emux, hist, ncalls>>

GetMergedRet(p) == UnlockReturn(p, "gm_ret")

(* ------------------------------ DB.Delete ------------------------------ *)
\* (mutant) Delete that removes the export marker along with the file
DeleteWithMarker(p, k) ==
    /\ canCall(p)
    /\ ncalls' = ncalls + 1
    /\ files' = [files EXCEPT ![k] = NoFile]
    /\ markers' = [markers EXCEPT ![k] = NoMarker]
    /\ return(p, [begin(p, "Delete") EXCEPT !.key = k,
                      !.err = IF files[k].ex THEN "nil" ELSE "ErrNotExist"])
    /\ loc' = [locAfterRemove(k) EXCEPT ![p] = Idle]
    /\ UNCHANGED <<remote, conf, ctx, now, mux, pmux, emux>>

\* os.Remove of the key's file, without any lock
Delete(p, k) ==
    /\ canCall(p)
    /\ ncalls' = ncalls + 1
    /\ files' = [files EXCEPT ![k] = NoFile]
    /\ return(p, [begin(p, "Delete") EXCEPT !.key = k,
                      !.err = IF files[k].ex THEN "nil" ELSE "ErrNotExist"])
    /\ loc' = [locAfterRemove(k) EXCEPT ![p] = Idle]
    /\ UNCHANGED <<markers, remote, conf, ctx, now, mux, pmux, emux>>

(* ------------------------------ Rows.ForEach --------------------------- *)
\* the rows after the header, read until the data ends, a row does not
\* parse or has another number of fields than the header, or the visit
\* fails; `stop` is the number of the row at which the caller's visit
\* returns an error (0: never)
RECURSIVE readRows(_, _, _, _, _)
readRows(data, i, nfields, stop, acc) ==
    LET r == csvRead(data, i)
    IN IF r.err = "EOF" THEN [err |-> "nil", rows |-> acc]
       ELSE IF r.err # "nil" THEN [err |-> r.err, rows |-> acc]
       ELSE IF Len(r.rec) # nfields THEN [err |-> "ErrFieldCount", rows |-> acc]
       ELSE IF Len(acc) + 1 = stop THEN [err |-> "ErrVisit", rows |-> Append(acc, r.rec)]
       ELSE readRows(data, r.next, nfields, stop, Append(acc, r.rec))

\* (mutant) Rows.ForEach that does not read past the header
ForEachWithHeader(data, stop) ==
    IF Len(data) = 0 THEN [err |-> "nil", rows |-> <<>>]
    ELSE LET hdr == csvRead(data, 1)
         IN IF hdr.err # "nil" THEN [err |-> "ErrHeader", rows |-> <<>>]
            ELSE readRows(data, 1, Len(hdr.rec), stop, <<>>)

\* Rows.ForEach over the bytes of the file: an empty file has no rows, the
\* first row is read past as the header
ForEach(data, stop) ==
    IF Len(data) = 0 THEN [err |-> "nil", rows |-> <<>>]
    ELSE LET hdr == csvRead(data, 1)
         IN IF hdr.err # "nil" THEN [err |-> "ErrHeader", rows |-> <<>>]
            ELSE readRows(data, hdr.next, Len(hdr.rec), stop, <<>>)

(* ------------------------------ DB.AppendWithFunc ---------------------- *)
\* the caller's transform: whether it scans the rows, the row at which its
\* visit fails, whether it returns an error of its own
Transform == {[scan |-> FALSE, stop |-> 0, fail |-> FALSE],
              [scan |-> TRUE, stop |-> 0, fail |-> FALSE],
              [scan |-> TRUE, stop |-> 1, fail |-> FALSE],
              [scan |-> FALSE, stop |-> 0, fail |-> TRUE]}

AppendWithFuncCall(p, k, fn, es) ==
    /\ canCall(p)
    /\ ncalls' = ncalls + 1
    /\ loc' = [loc EXCEPT ![p] = [begin(p, "AppendWithFunc") EXCEPT
                                      !.key = k, !.fn = fn, !.es = es]]
    /\ pc' = [pc EXCEPT ![p] = "awf_lock"]
    /\ UNCHANGED <<files, markers, remote, conf, ctx, now, mux, pmux, emux, hist>>

\* (mutant) AppendWithFunc that goes on without taking the lock
AppendWithFuncNoLock(p) ==
    /\ pc[p] = "awf_lock"
    /\ pc' = [pc EXCEPT ![p] = "awf_open"]
    /\ UNCHANGED <<files, markers, remote, conf, ctx, now, mux, pmux, emux, loc, hist, ncalls>>

AppendWithFuncLock(p) == Lock(p, "awf_lock", "awf_open")

AppendWithFuncOpen(p) ==
    /\ pc[p] = "awf_open"
    /\ getOrCreate(p, "awf_fn", "awf_ret")
    /\ UNCHANGED <<markers, remote, conf, ctx, now, mux, pmux, emux, hist, ncalls>>

\* (mutant) AppendWithFunc that does not look at the transform's error
afterFnErrIgnored(err, es) == IF es = <<>> THEN "awf_ret" ELSE "awf_stat"

\* `if es, err = fn(&r); err != nil` returns; writeEntries returns at once
\* when there are no entries
afterFn(err, es) == IF err # "nil" \/ es = <<>> THEN "awf_ret" ELSE "awf_stat"

\* es, err = fn(&r): the transform runs on the open handle.  A transform
\* that scans returns the scanner's error if there is one.
AppendWithFuncFn(p) ==
    /\ pc[p] = "awf_fn"
    /\ LET l == loc[p]
           data == hdata(l.h)
           r == IF ~l.fn.scan THEN [err |-> "nil", rows |-> <<>>]
                ELSE IF l.h.closed THEN [err |-> "ErrClosed", rows |-> <<>>]
                ELSE ForEach(data, l.fn.stop)
           err == IF r.err # "nil" THEN r.err
                  ELSE IF l.fn.fail THEN "ErrFn" ELSE "nil"
       IN /\ loc' = [loc EXCEPT ![p] = [@ EXCEPT
                        !.seen = r.rows,
                        !.err = err,
                        !.h = IF l.fn.scan /\ ~l.h.closed
                              THEN [@ EXCEPT !.off = Len(data)] ELSE @]]
          /\ pc' = [pc EXCEPT ![p] = afterFn(err, l.es)]
    /\ UNCHANGED <<files, markers, remote, conf, ctx, now, mux, pmux, emux, hist, ncalls>>

AppendWithFuncStat(p) == pc[p] = "awf_stat" /\ statSize(p, "awf_write", "awf_ret")

AppendWithFuncWrite(p) == pc[p] = "awf_write" /\ writeEntries(p, "awf_ret")

AppendWithFuncRet(p) == UnlockReturn(p, "awf_ret")

(* ------------------------------ purge ---------------------------------- *)
\* the positions at which a process holds pmux
PurgeActive == {"pg_scan_lock", "pg_scan", "pg_rm_lock", "pg_rm", "pg_ret"}

\* (mutant) a file expires only after its time-to-live has passed
isExpiredLate(t, info) == IF t = 0 THEN FALSE ELSE now - info.mtime > t

isExpiredBasic(t, info) == IF t = 0 THEN FALSE ELSE now - info.mtime >= t

\* Options.fill: the default ExpiryMonitor, basicExpiryMonitor(o.FileTTL)
ExpiryMonitor(k, info) == isExpiredBasic(ttl, info)

\* DB.forEach: the .csv files of the directory, in the order of the walk
forEach == SelectSeq(KeyOrder, LAMBDA k : files[k].ex)

\* getExpired's walk: the files the expiry monitor reports
getExpired == SelectSeq(forEach, LAMBDA k : ExpiryMonitor(k, files[k]))

\* (mutant) getExpired that returns without its deferred Unlock
PurgeScanKeepsLock(p) ==
    /\ pc[p] = "pg_scan"
    /\ loc' = [loc EXCEPT ![p] = [@ EXCEPT !.list = getExpired, !.i = 1, !.at = now]]
    /\ pc' = [pc EXCEPT ![p] = "pg_rm_lock"]
    /\ UNCHANGED <<files, markers, remote, conf, ctx, now, mux, pmux, emux, hist, ncalls>>

\* (mutant) TryLock that always succeeds
pmuxTryLockAlways == TRUE

\* d.pmux.TryLock()
pmuxTryLock == pmux = None

\* purge while a purge is running: ErrPurgeIsActive
PurgeBusy(p) ==
    /\ canCall(p)
    /\ ~pmuxTryLock
    /\ ncalls' = ncalls + 1
    /\ return(p, [begin(p, "purge") EXCEPT !.err = "ErrPurgeIsActive",
                      !.busy = \E q \in Proc : pc[q] \in PurgeActive])
    /\ loc' = [loc EXCEPT ![p] = Idle]
    /\ UNCHANGED <<files, markers, remote, conf, ctx, now, mux, pmux, emux>>

PurgeCall(p) ==
    /\ canCall(p)
    /\ pmuxTryLock
    /\ pmux' = p
    /\ ncalls' = ncalls + 1
    /\ loc' = [loc EXCEPT ![p] = [begin(p, "purge") EXCEPT
                                      !.busy = \E q \in Proc : pc[q] \in PurgeActive]]
    /\ pc' = [pc EXCEPT ![p] = "pg_scan_lock"]
    /\ UNCHANGED <<files, markers, remote, conf, ctx, now, mux, emux, hist>>

PurgeScanLock(p) == Lock(p, "pg_scan_lock", "pg_scan")

\* getExpired: the walk under the lock, and its deferred Unlock
PurgeScan(p) ==
    /\ pc[p] = "pg_scan"
    /\ loc' = [loc EXCEPT ![p] = [@ EXCEPT !.list = getExpired, !.i = 1, !.at = now]]
    /\ mux' = None
    /\ pc' = [pc EXCEPT ![p] = "pg_rm_lock"]
    /\ UNCHANGED <<files, markers, remote, conf, ctx, now, pmux, emux, hist, ncalls>>

PurgeRemoveLock(p) == Lock(p, "pg_rm_lock", "pg_rm")

\* removeAll: one os.Remove per listed file, until the first error; then the
\* deferred Unlock
PurgeRemove(p) ==
    /\ pc[p] = "pg_rm"
    /\ LET l == loc[p] IN
       IF l.i > Len(l.list)
       THEN /\ mux' = None
            /\ pc' = [pc EXCEPT ![p] = "pg_ret"]
            /\ UNCHANGED <<files, loc>>
       ELSE IF ~files[l.list[l.i]].ex
       THEN /\ mux' = None
            /\ loc' = [loc EXCEPT ![p] = [@ EXCEPT !.err = "ErrNotExist"]]
            /\ pc' = [pc EXCEPT ![p] = "pg_ret"]
            /\ UNCHANGED files
       ELSE /\ files' = [files EXCEPT ![l.list[l.i]] = NoFile]
            /\ loc' = [locAfterRemove(l.list[l.i]) EXCEPT ![p] =
                          [l EXCEPT !.acted = Append(@, l.list[l.i]), !.i = @ + 1]]
            /\ UNCHANGED <<mux, pc>>
    /\ UNCHANGED <<markers, remote, conf, ctx, now, pmux, emux, hist, ncalls>>

\* the deferred d.pmux.Unlock()
PurgeRet(p) ==
    /\ pc[p] = "pg_ret"
    /\ pmux' = None
    /\ return(p, loc[p])
    /\ loc' = [loc EXCEPT ![p] = Idle]
    /\ UNCHANGED <<files, markers, remote, conf, ctx, now, mux, emux, ncalls>>

(* ------------------------------ backup --------------------------------- *)
\* the positions at which a process holds emux
BackupActive == {"bk_scan_lock", "bk_scan", "bk_open", "bk_send", "bk_mark", "bk_ret"}

\* the zero time.Time: before every modification time
ZeroTime == -1

\* getLastExported: the marker's modification time, the zero time without one
getLastExported(k) == IF markers[k].ex THEN markers[k].mtime ELSE ZeroTime

\* time.Time.After
After(t, u) == t > u

\* getExportable's walk: the files not exported since their last update
getExportable ==
    SelectSeq(forEach, LAMBDA k : ~After(getLastExported(k), files[k].mtime))

\* (mutant) TryLock that always succeeds
emuxTryLockAlways == TRUE

\* d.emux.TryLock()
emuxTryLock == emux = None

\* backup while a backup is running: ErrExportIsActive
BackupBusy(p) ==
    /\ canCall(p)
    /\ ~emuxTryLock
    /\ ncalls' = ncalls + 1
    /\ return(p, [begin(p, "backup") EXCEPT !.err = "ErrExportIsActive",
                      !.busy = \E q \in Proc : pc[q] \in BackupActive])
    /\ loc' = [loc EXCEPT ![p] = Idle]
    /\ UNCHANGED <<files, markers, remote, conf, ctx, now, mux, pmux, emux>>

BackupCall(p) ==
    /\ canCall(p)
    /\ emuxTryLock
    /\ emux' = p
    /\ ncalls' = ncalls + 1
    /\ loc' = [loc EXCEPT ![p] = [begin(p, "backup") EXCEPT
                                      !.busy = \E q \in Proc : pc[q] \in BackupActive]]
    /\ pc' = [pc EXCEPT ![p] = "bk_scan_lock"]
    /\ UNCHANGED <<files, markers, remote, conf, ctx, now, mux, pmux, hist>>

BackupScanLock(p) == Lock(p, "bk_scan_lock", "bk_scan")

\* exportAll's loop: the position after the listed file i is done
afterExport(l) == IF l.i + 1 > Len(l.list) THEN "bk_ret" ELSE "bk_open"

\* (mutant) exportAll that goes on after a failed export
afterFailedExportGoesOn(l) == "bk_open"

\* exportAll: `if err = d.export(name); err != nil` returns
afterFailedExport(l) == "bk_ret"

\* getExportable: the walk under the lock, and its deferred Unlock
BackupScan(p) ==
    /\ pc[p] = "bk_scan"
    /\ loc' = [loc EXCEPT ![p] = [@ EXCEPT !.list = getExportable, !.i = 1]]
    /\ mux' = None
    /\ pc' = [pc EXCEPT ![p] = IF getExportable = <<>> THEN "bk_ret" ELSE "bk_open"]
    /\ UNCHANGED <<files, markers, remote, conf, ctx, now, pmux, emux, hist, ncalls>>

\* export, up to os.Open: no backend, or no such file, ends exportAll
BackupOpen(p) ==
    /\ pc[p] = "bk_open"
    /\ LET l == loc[p]
           k == l.list[l.i]
       IN IF ~b
          THEN /\ loc' = [loc EXCEPT ![p] = [@ EXCEPT !.err = "ErrBackendNotSet"]]
               /\ pc' = [pc EXCEPT ![p] = "bk_ret"]
          ELSE IF ~files[k].ex
          THEN /\ loc' = [loc EXCEPT ![p] = [@ EXCEPT !.err = "ErrNotExist"]]
               /\ pc' = [pc EXCEPT ![p] = afterFailedExport(l)]
          ELSE /\ loc' = [loc EXCEPT ![p] = [@ EXCEPT !.h = openHandle(k)]]
               /\ pc' = [pc EXCEPT ![p] = "bk_send"]
    /\ UNCHANGED <<files, markers, remote, conf, ctx, now, mux, pmux, emux, hist, ncalls>>

\* d.b.Export: the backend stores the bytes of the file, or fails
BackupSend(p) ==
    /\ pc[p] = "bk_send"
    /\ LET l == loc[p]
           k == l.list[l.i]
       IN \/ /\ remote' = [remote EXCEPT ![k] = [ex |-> TRUE, data |-> copyFrom(l.h)]]
             /\ loc' = [loc EXCEPT ![p] = [@ EXCEPT !.acted = Append(@, k), !.h = NoHandle]]
             /\ pc' = [pc EXCEPT ![p] = "bk_mark"]
          \/ /\ loc' = [loc EXCEPT ![p] = [@ EXCEPT !.acted = Append(@, k), !.h = NoHandle,
                                                   !.err = "ErrBackend"]]
             /\ pc' = [pc EXCEPT ![p] = afterFailedExport(l)]
             /\ UNCHANGED remote
    /\ UNCHANGED <<files, markers, conf, ctx, now, mux, pmux, emux, hist, ncalls>>

\* setLastExported: os.Create of the marker sets its modification time
BackupMark(p) ==
    /\ pc[p] = "bk_mark"
    /\ LET l == loc[p]
           k == l.list[l.i]
       IN /\ markers' = [markers EXCEPT ![k] = [ex |-> TRUE, mtime |-> now]]
          /\ loc' = [loc EXCEPT ![p] = [@ EXCEPT !.marked = Append(@, k), !.i = @ + 1]]
          /\ pc' = [pc EXCEPT ![p] = afterExport(l)]
    /\ UNCHANGED <<files, remote, conf, ctx, now, mux, pmux, emux, hist, ncalls>>

\* the deferred d.emux.Unlock()
BackupRet(p) ==
    /\ pc[p] = "bk_ret"
    /\ emux' = None
    /\ return(p, loc[p])
    /\ loc' = [loc EXCEPT ![p] = Idle]
    /\ UNCHANGED <<files, markers, remote, conf, ctx, now, mux, pmux, ncalls>>

(* ------------------------------ scan ----------------------------------- *)
\* the loop body of scan at a tick of its ticker, up to `go fn()`: the select
\* has the case `<-ctx.Done()` and the default case, both with an empty
\* body, so in either state of the context control goes on to `go fn()`
afterSelect(c) == IF c = "done" THEN "go fn" ELSE "go fn"

\* go scan(d.ctx, d.asyncBackup, d.o.ExportInterval): a tick starts
\* asyncBackup, that is backup, on a goroutine of its own
scanBackup(p) ==
    /\ afterSelect(ctx) = "go fn"
    /\ BackupCall(p) \/ BackupBusy(p)

\* go scan(d.ctx, d.asyncPurge, d.o.PurgeInterval)
scanPurge(p) ==
    /\ afterSelect(ctx) = "go fn"
    /\ PurgeCall(p) \/ PurgeBusy(p)

(* ------------------------------ DB.Close ------------------------------- *)
\* d.cancel()
CloseCall(p) ==
    /\ canCall(p)
    /\ ncalls' = ncalls + 1
    /\ ctx' = "done"
    /\ loc' = [loc EXCEPT ![p] = begin(p, "Close")]
    /\ pc' = [pc EXCEPT ![p] = "cl_backup"]
    /\ UNCHANGED <<files, markers, remote, conf, now, mux, pmux, emux, hist>>

\* return d.backup(): the TryLock of backup; from there on Close runs the
\* steps of backup
CloseBackup(p) ==
    /\ pc[p] = "cl_backup"
    /\ IF emuxTryLock
       THEN /\ emux' = p
            /\ pc' = [pc EXCEPT ![p] = "bk_scan_lock"]
            /\ UNCHANGED <<loc, hist>>
       ELSE /\ return(p, [loc[p] EXCEPT !.err = "ErrExportIsActive", !.busy = TRUE])
            /\ loc' = [loc EXCEPT ![p] = Idle]
            /\ UNCHANGED emux
    /\ UNCHANGED <<files, markers, remote, conf, ctx, now, mux, pmux, ncalls>>

(* ------------------------------ the clock ------------------------------ *)
Tick ==
    /\ now < MaxTime
    /\ now' = now + 1
    /\ UNCHANGED <<files, markers, remote, conf, ctx, mux, pmux, emux, pc, loc, hist, ncalls>>

(* ------------------------------ specifications ------------------------- *)
\* a file an earlier run of the program left in the directory
OldFile == [ex |-> TRUE, data |-> RemoteBytes, mtime |-> 0]

\* the package as built: openFile is os.OpenFile, and the disk takes writes
NoFaults == openFile = "os" /\ disk = "ok"

\* the marker an export of an earlier run left
OldMarker == [ex |-> TRUE, mtime |-> 0]

\* makeDB: no call running, nothing exported yet
InitStore ==
    /\ markers = [k \in Key |-> NoMarker]
    /\ now = 0
    /\ ctx = "live"
    /\ mux = None /\ pmux = None /\ emux = None
    /\ pc = [p \in Proc |-> "idle"]
    /\ loc = [p \in Proc |-> Idle]
    /\ hist = <<>>
    /\ ncalls = 0

\* one caller, one call at a time: the read and append paths.  The caller
\* chose whether there is a backend; the backend holds, per key, no object,
\* an object of two rows, or an object of no bytes
InitRead ==
    /\ InitStore
    /\ NoFaults
    /\ files = [k \in Key |-> NoFile]
    /\ ttl = 0
    /\ b \in BOOLEAN
    /\ remote \in [Key -> {NoObject, [ex |-> TRUE, data |-> RemoteBytes],
                           [ex |-> TRUE, data |-> <<>>]}]
    /\ (~b => remote = [k \in Key |-> NoObject])

ReadStep(p) ==
    \/ \E k \in Key : AppendEmpty(p, k)
    \/ \E k \in Key, es \in EntrySeqs : AppendCall(p, k, es)
    \/ AppendLock(p)
    \/ AppendOpen(p)
    \/ AppendStat(p)
    \/ AppendWrite(p)
    \/ AppendRet(p)
    \/ \E k \in Key : GetCall(p, k)
    \/ GetLock(p)
    \/ GetOpen(p)
    \/ GetImport(p)
    \/ GetCopy(p)
    \/ GetRet(p)
    \/ \E keys \in KeySeqs : GetMergedCall(p, keys)
    \/ GetMergedLock(p)
    \/ GetMergedOpen(p)
    \/ GetMergedImport(p)
    \/ GetMergedErr(p)
    \/ GetMergedCopy(p)
    \/ GetMergedRet(p)
    \/ \E k \in Key : Delete(p, k)

NextRead == ReadStep("c1")

SpecRead == InitRead /\ [][NextRead]_vars

\* two callers reading from a store with a backend at the same time; no
\* local file exists yet, and the backend holds an object for key a
InitFetch ==
    /\ InitStore
    /\ NoFaults
    /\ files = [k \in Key |-> NoFile]
    /\ ttl = 0
    /\ b = TRUE
    /\ remote \in [Key -> {NoObject, [ex |-> TRUE, data |-> RemoteBytes]}]
    /\ remote["a"].ex

\* the key lists the two callers merge
FetchKeys == {<<"a">>, <<"b", "a">>}

FetchStep(p) ==
    \/ \E k \in Key : GetCall(p, k)
    \/ GetLock(p)
    \/ GetOpen(p)
    \/ GetImport(p)
    \/ GetCopy(p)
    \/ GetRet(p)
    \/ \E keys \in FetchKeys : GetMergedCall(p, keys)
    \/ GetMergedLock(p)
    \/ GetMergedOpen(p)
    \/ GetMergedImport(p)
    \/ GetMergedErr(p)
    \/ GetMergedCopy(p)
    \/ GetMergedRet(p)

NextFetch == \E p \in Client : FetchStep(p)

SpecFetch == InitFetch /\ [][NextFetch]_vars

\* two callers appending to the same store at the same time
InitAppend ==
    /\ InitStore
    /\ NoFaults
    /\ files = [k \in Key |-> NoFile]
    /\ ttl = 0
    /\ b = FALSE
    /\ remote = [k \in Key |-> NoObject]

AppendStep(p) ==
    \/ \E k \in Key, es \in {<<EntPlain1>>, <<EntPlain2, EntPlain1>>} : AppendCall(p, k, es)
    \/ AppendLock(p)
    \/ AppendOpen(p)
    \/ AppendStat(p)
    \/ AppendWrite(p)
    \/ AppendRet(p)
    \/ \E k \in Key, fn \in {t \in Transform : t.stop = 0 /\ t.scan # t.fail},
          es \in {<<>>, <<EntQuoted>>} :
           AppendWithFuncCall(p, k, fn, es)
    \/ AppendWithFuncLock(p)
    \/ AppendWithFuncOpen(p)
    \/ AppendWithFuncFn(p)
    \/ AppendWithFuncStat(p)
    \/ AppendWithFuncWrite(p)
    \/ AppendWithFuncRet(p)

NextAppend == \E p \in Client : AppendStep(p)

SpecAppend == InitAppend /\ [][NextAppend]_vars

\* the two background jobs, each invoked by two processes at the same time,
\* on a directory that holds files of an earlier run
InitJobs ==
    /\ InitStore
    /\ NoFaults
    /\ files \in [Key -> {NoFile, OldFile}]
    /\ ttl \in {0, 1}
    /\ b = TRUE
    /\ remote = [k \in Key |-> NoObject]

PurgeStep(p) ==
    \/ PurgeBusy(p)
    \/ PurgeCall(p)
    \/ PurgeScanLock(p)
    \/ PurgeScan(p)
    \/ PurgeRemoveLock(p)
    \/ PurgeRemove(p)
    \/ PurgeRet(p)

BackupStep(p) ==
    \/ BackupBusy(p)
    \/ BackupCall(p)
    \/ BackupScanLock(p)
    \/ BackupScan(p)
    \/ BackupOpen(p)
    \/ BackupSend(p)
    \/ BackupMark(p)
    \/ BackupRet(p)

WriterStep(p) ==
    \/ \E k \in Key : AppendCall(p, k, <<EntPlain1>>)
    \/ AppendLock(p)
    \/ AppendOpen(p)
    \/ AppendStat(p)
    \/ AppendWrite(p)
    \/ AppendRet(p)

NextJobs ==
    \/ \E p \in Job : PurgeStep(p)
    \/ \E p \in Job : BackupStep(p)
    \/ Tick

SpecJobs == InitJobs /\ [][NextJobs]_vars

\* one caller that appends and purges, one call at a time, while time passes
InitPurge ==
    /\ InitStore
    /\ NoFaults
    /\ files \in [Key -> {NoFile, OldFile}]
    /\ ttl \in {0, 1, 2}
    /\ b = FALSE
    /\ remote = [k \in Key |-> NoObject]

NextPurge ==
    \/ WriterStep("c1")
    \/ PurgeCall("c1")
    \/ PurgeScanLock("c1")
    \/ PurgeScan("c1")
    \/ PurgeRemoveLock("c1")
    \/ PurgeRemove("c1")
    \/ PurgeRet("c1")
    \/ Tick

SpecPurge == InitPurge /\ [][NextPurge]_vars

\* a caller that appends while the purge job runs and time passes
NextReap ==
    \/ WriterStep("c1")
    \/ PurgeCall("j1")
    \/ PurgeScanLock("j1")
    \/ PurgeScan("j1")
    \/ PurgeRemoveLock("j1")
    \/ PurgeRemove("j1")
    \/ PurgeRet("j1")
    \/ Tick

SpecReap == InitPurge /\ [][NextReap]_vars

\* New: the two schedulers dispatch purge and backup on goroutines of their
\* own while a caller closes the store; the clock stands still meanwhile
InitClose ==
    /\ InitStore
    /\ NoFaults
    /\ files = [k \in Key |-> OldFile]
    /\ ttl = 1
    /\ b = TRUE
    /\ remote = [k \in Key |-> NoObject]

\* the steps of backup after its TryLock
BackupRun(p) ==
    \/ BackupScanLock(p)
    \/ BackupScan(p)
    \/ BackupOpen(p)
    \/ BackupSend(p)
    \/ BackupMark(p)
    \/ BackupRet(p)

\* the steps of purge after its TryLock
PurgeRun(p) ==
    \/ PurgeScanLock(p)
    \/ PurgeScan(p)
    \/ PurgeRemoveLock(p)
    \/ PurgeRemove(p)
    \/ PurgeRet(p)

NextClose ==
    \/ \E p \in Job : scanBackup(p)
    \/ \E p \in Job : scanPurge(p)
    \/ \E p \in Job : BackupRun(p)
    \/ \E p \in Job : PurgeRun(p)
    \/ CloseCall("c1")
    \/ CloseBackup("c1")
    \/ BackupRun("c1")

SpecClose == InitClose /\ [][NextClose]_vars

\* one caller that uses every write operation, one call at a time, on a
\* directory that holds files of an earlier run, some of them exported by
\* then; openFile may have been replaced, or the disk may be full
InitWrite ==
    /\ files \in [Key -> {NoFile, OldFile}]
    /\ markers \in [Key -> {NoMarker, OldMarker}]
    /\ files["b"].ex /\ markers["b"].ex
    /\ ~markers["a"].ex
    /\ now = 0
    /\ ctx = "live"
    /\ mux = None /\ pmux = None /\ emux = None
    /\ pc = [p \in Proc |-> "idle"]
    /\ loc = [p \in Proc |-> Idle]
    /\ hist = <<>>
    /\ ncalls = 0
    /\ openFile \in {"os", "closed", "error"}
    /\ disk \in {"ok", "full"}
    /\ openFile = "os" \/ disk = "ok"
    /\ ttl = 0
    /\ b = TRUE
    /\ remote = [k \in Key |-> NoObject]

NextWrite ==
    \/ \E k \in Key : AppendEmpty("c1", k)
    \/ \E k \in Key : AppendCall("c1", k, <<EntPlain2, EntPlain1>>)
    \/ AppendLock("c1")
    \/ AppendOpen("c1")
    \/ AppendStat("c1")
    \/ AppendWrite("c1")
    \/ AppendRet("c1")
    \/ \E k \in Key, fn \in Transform, es \in {<<>>, <<EntPlain1>>} :
           AppendWithFuncCall("c1", k, fn, es)
    \/ AppendWithFuncLock("c1")
    \/ AppendWithFuncOpen("c1")
    \/ AppendWithFuncFn("c1")
    \/ AppendWithFuncStat("c1")
    \/ AppendWithFuncWrite("c1")
    \/ AppendWithFuncRet("c1")
    \/ \E k \in Key : Delete("c1", k)

SpecWrite == InitWrite /\ [][NextWrite]_vars

\* the transforms that scan the rows with a visit that fails at no row, at
\* the first row, or at the second row
Scans == {[scan |-> TRUE, stop |-> n, fail |-> FALSE] : n \in 0..2}

\* one caller that appends rows and then scans them through AppendWithFunc
NextRows ==
    \/ \E k \in Key, es \in EntrySeqs : AppendCall("c1", k, es)
    \/ AppendLock("c1")
    \/ AppendOpen("c1")
    \/ AppendStat("c1")
    \/ AppendWrite("c1")
    \/ AppendRet("c1")
    \/ \E k \in Key, fn \in Scans, es \in {<<>>, <<EntPlain1>>} :
           AppendWithFuncCall("c1", k, fn, es)
    \/ AppendWithFuncLock("c1")
    \/ AppendWithFuncOpen("c1")
    \/ AppendWithFuncFn("c1")
    \/ AppendWithFuncStat("c1")
    \/ AppendWithFuncWrite("c1")
    \/ AppendWithFuncRet("c1")

SpecRows == InitAppend /\ [][NextRows]_vars

\* one caller that appends while the export job runs and time passes
InitExport ==
    /\ InitStore
    /\ NoFaults
    /\ files = [k \in Key |-> NoFile]
    /\ ttl = 0
    /\ b = TRUE
    /\ remote = [k \in Key |-> NoObject]

NextExport ==
    \/ WriterStep("c1")
    \/ BackupCall("j1")
    \/ BackupScanLock("j1")
    \/ BackupScan("j1")
    \/ BackupOpen("j1")
    \/ BackupSend("j1")
    \/ BackupMark("j1")
    \/ BackupRet("j1")
    \/ Tick

SpecExport == InitExport /\ [][NextExport]_vars

\* a writer and the backup job on a directory an earlier run left: the
\* files in it were never exported
InitSync ==
    /\ InitStore
    /\ NoFaults
    /\ files \in [Key -> {NoFile, OldFile}]
    /\ ttl = 0
    /\ b = TRUE
    /\ remote = [k \in Key |-> NoObject]

SpecSync == InitSync /\ [][NextExport]_vars

\* two callers and the two jobs on a directory whose files have reached
\* their time-to-live; the backend holds nothing yet
InitLocks ==
    /\ markers = [k \in Key |-> NoMarker]
    /\ now = 1
    /\ ctx = "live"
    /\ mux = None /\ pmux = None /\ emux = None
    /\ pc = [p \in Proc |-> "idle"]
    /\ loc = [p \in Proc |-> Idle]
    /\ hist = <<>>
    /\ ncalls = 0
    /\ NoFaults
    /\ files = [k \in Key |-> OldFile]
    /\ ttl = 1
    /\ b = TRUE
    /\ remote = [k \in Key |-> NoObject]

\* the calls the callers and the schedulers start
LockCall ==
    \/ \E p \in Client : AppendCall(p, "a", <<EntPlain1>>)
    \/ \E p \in Client :
          AppendWithFuncCall(p, "a", [scan |-> FALSE, stop |-> 0, fail |-> FALSE], <<EntPlain1>>)
    \/ \E p \in Client : GetCall(p, "a")
    \/ \E p \in Client : GetMergedCall(p, <<"b", "a">>)
    \/ \E p \in Job : PurgeCall(p)
    \/ \E p \in Job : PurgeBusy(p)
    \/ \E p \in Job : BackupCall(p)
    \/ \E p \in Job : BackupBusy(p)

\* the steps of a call that has started, up to its return
LockRun(p) ==
    \/ AppendLock(p)
    \/ AppendOpen(p)
    \/ AppendStat(p)
    \/ AppendWrite(p)
    \/ AppendRet(p)
    \/ AppendWithFuncLock(p)
    \/ AppendWithFuncOpen(p)
    \/ AppendWithFuncFn(p)
    \/ AppendWithFuncStat(p)
    \/ AppendWithFuncWrite(p)
    \/ AppendWithFuncRet(p)
    \/ GetLock(p)
    \/ GetOpen(p)
    \/ GetImport(p)
    \/ GetCopy(p)
    \/ GetRet(p)
    \/ GetMergedLock(p)
    \/ GetMergedOpen(p)
    \/ GetMergedImport(p)
    \/ GetMergedErr(p)
    \/ GetMergedCopy(p)
    \/ GetMergedRet(p)
    \/ PurgeRun(p)
    \/ BackupRun(p)

NextLocks == LockCall \/ \E p \in Proc : LockRun(p)

\* every goroutine that can take a step is scheduled in the end, and every
\* backend and filesystem call returns; sync.Mutex hands the lock to a
\* waiter once it is free
SpecLocks == InitLocks /\ [][NextLocks]_vars /\ \A p \in Proc : WF_vars(LockRun(p))

(* ------------------------------ properties ----------------------------- *)
\* no call is running
Quiet == \A p \in Proc : pc[p] = "idle"

\* the most recent call that returned is a call of op
Returned(op) == hist # <<>> /\ hist[1].op = op

\* the keys a returned read resolved, in the order of its trace
KeysOf(rec) == IF rec.op = "Get" THEN <<rec.key>> ELSE rec.keys

ValuesOf(es) == [i \in 1..Len(es) |-> es[i].vals]

AppendThenGet ==
    /\ Len(hist) >= 2
    /\ hist[1].op = "Get" /\ hist[2].op = "Append"
    /\ hist[2].es # <<>>
    /\ hist[1].key = hist[2].key
    /\ ~hist[2].pre[hist[2].key].ex

\* C1: Append(key, E...) of a non-empty E under a key with no local file,
\* followed immediately by Get(w, key), returns no error and writes exactly
\* the header row E[0].Keys() and then the rows E[i].Values() in order.
C1_AppendThenGet ==
    AppendThenGet =>
        LET es == hist[2].es
            rows == <<es[1].keys>> \o ValuesOf(es)
        IN /\ hist[1].err = "nil"
           /\ hist[1].out = csvWriteAll(rows)
           /\ csvRecords(hist[1].out, 1) = rows

C1_Witness == AppendThenGet /\ Len(hist[2].es) = 2 /\ hist[1].out # <<>>

\* a Get returned that found no local file, had a backend, and whose Import
\* ended with the given outcome
GetDownloaded(outcome) ==
    /\ Returned("Get")
    /\ ~hist[1].pre[hist[1].key].ex
    /\ b
    /\ hist[1].trace = <<outcome>>

\* C3: when the key has no local file and the backend's Import succeeds with
\* bytes B, Get returns no error and writes exactly B.
C3_DownloadWritesObject ==
    GetDownloaded("ok") =>
        /\ hist[1].err = "nil"
        /\ hist[1].out = remote[hist[1].key].data

\* C4: when the key has no local file and the backend's Import reports
\* not-found, Get returns ErrEntryNotFound.
C4_NotFoundIsErrEntryNotFound ==
    GetDownloaded("notfound") => hist[1].err = "ErrEntryNotFound"

ReadReturned == Quiet /\ (Returned("Get") \/ Returned("GetMerged"))

\* C5: after a Get or GetMerged whose download of a key was answered with
\* not-found has returned, that key has no local file.
C5_NotFoundLeavesNoFile ==
    ReadReturned =>
        \A j \in 1..Len(hist[1].trace) :
            hist[1].trace[j] = "notfound" => ~files[KeysOf(hist[1])[j]].ex

C5_Witness ==
    /\ ReadReturned
    /\ hist[1].trace = <<"hit", "notfound">>
    /\ ~files[hist[1].keys[2]].ex

GetWithoutBackend ==
    /\ Quiet
    /\ Returned("Get")
    /\ ~hist[1].pre[hist[1].key].ex
    /\ ~b

\* C6: when the key has no local file and no backend is configured, Get
\* returns ErrBackendNotSet, writes nothing and creates no local file.
C6_NoBackend ==
    GetWithoutBackend =>
        /\ hist[1].err = "ErrBackendNotSet"
        /\ hist[1].out = <<>>
        /\ ~files[hist[1].key].ex
        /\ files = hist[1].pre

C6_Witness == GetWithoutBackend /\ hist[1].err = "ErrBackendNotSet"

\* a local file made of one header row plus data rows
WellFormed(f) ==
    /\ f.ex
    /\ f.data # <<>>
    /\ csvWriteAll(csvRecords(f.data, 1)) = f.data

HeaderOf(f) == csvRecords(f.data, 1)[1]
DataRowsOf(f) == Tail(csvRecords(f.data, 1))

RECURSIVE MergedRows(_, _)
MergedRows(dir, keys) ==
    IF keys = <<>> THEN <<>>
    ELSE DataRowsOf(dir[Head(keys)]) \o MergedRows(dir, Tail(keys))

\* C7: for keys k1..kn that each have a local file of one header row plus
\* data rows, GetMerged returns no error and writes the header row of k1 and
\* then the data rows of k1, ..., kn in that order; nothing for n = 0.
C7_MergedRows ==
    (/\ Returned("GetMerged")
     /\ \A j \in 1..Len(hist[1].keys) : WellFormed(hist[1].pre[hist[1].keys[j]]))
    => LET keys == hist[1].keys
           dir == hist[1].pre
       IN /\ hist[1].err = "nil"
          /\ hist[1].out =
                IF keys = <<>> THEN <<>>
                ELSE csvWrite(HeaderOf(dir[keys[1]])) \o csvWriteAll(MergedRows(dir, keys))

\* C8: in GetMerged a key answered with not-found, or needing a backend that
\* is not configured, is skipped: the merge goes on with the next key and
\* returns no error on account of that key; another download error ends the
\* merge and is returned.
C8_MergeSkips ==
    Returned("GetMerged") =>
        LET t == hist[1].trace
        IN \A j \in 1..Len(t) :
              /\ t[j] \in {"notfound", "nobackend"} =>
                    /\ j < Len(hist[1].keys) => Len(t) > j
                    /\ j = Len(t) => hist[1].err = "nil"
              /\ t[j] = "failed" => j = Len(t) /\ hist[1].err = "ErrBackend"

RECURSIVE Reverse(_)
Reverse(q) == IF q = <<>> THEN <<>> ELSE Append(Reverse(Tail(q)), Head(q))

\* the Append and AppendWithFunc calls on key k that returned, oldest first
AppendsOn(k) ==
    SelectSeq(Reverse(hist),
              LAMBDA r : r.key = k /\ r.op \in {"Append", "AppendWithFunc"})

\* the entries a returned call appended
Wrote(rec) == IF rec.err = "nil" THEN rec.es ELSE <<>>

Perms(n) == {f \in [1..n -> 1..n] : \A i, j \in 1..n : f[i] = f[j] => i = j}

\* the file that the calls recs leave when they run one after the other in
\* the order f
SerialFile(recs, f) ==
    LET all == Concat([i \in 1..Len(recs) |-> Wrote(recs[f[i]])])
    IN IF all = <<>> THEN <<>> ELSE csvWrite(all[1].keys) \o writeValues(all)

\* C2: after concurrent Append/AppendWithFunc calls on a key (no Delete, no
\* purge), the key's file is one header row followed by the value rows of
\* the calls in one serial order of the calls: no interleaving, each call's
\* rows in input order, the header written once, by the call that found the
\* file empty.
C2_AppendsSerialize ==
    Quiet =>
        \A k \in Key :
            LET recs == AppendsOn(k)
            IN \E f \in Perms(Len(recs)) : files[k].data = SerialFile(recs, f)

\* two calls of different processes wrote to the same key, and the one that
\* returned last had started before the other one wrote
C2_Witness ==
    /\ Quiet
    /\ Len(hist) = 2
    /\ hist[1].key = hist[2].key
    /\ hist[1].p # hist[2].p
    /\ hist[1].op = "AppendWithFunc" /\ hist[2].op = "Append"
    /\ Wrote(hist[1]) # <<>> /\ Wrote(hist[2]) # <<>>
    /\ ~hist[1].pre[hist[1].key].ex

\* C9: at most one purge holds purgeLock and at most one backup holds
\* exportLock at any time; an invocation started while another one of the
\* same job is active does not enter the job: it returns ErrPurgeIsActive
\* (ErrExportIsActive) and has deleted nothing (made no Export call and
\* written no marker).
C9_SingleFlight ==
    /\ Cardinality({p \in Proc : pc[p] \in PurgeActive}) <= 1
    /\ Cardinality({p \in Proc : pc[p] \in BackupActive}) <= 1
    /\ \A p \in Proc : pc[p] \in PurgeActive \cup BackupActive => ~loc[p].busy
    /\ \A i \in 1..Len(hist) :
          hist[i].busy =>
              /\ hist[i].op = "purge" => hist[i].err = "ErrPurgeIsActive"
              /\ hist[i].op = "backup" => hist[i].err = "ErrExportIsActive"
              /\ hist[i].acted = <<>>
              /\ hist[i].marked = <<>>

C9_Witness ==
    \E i, j \in 1..Len(hist) :
        /\ hist[i].op = "purge" /\ hist[i].busy /\ hist[i].err = "ErrPurgeIsActive"
        /\ hist[j].op = "purge" /\ hist[j].acted # <<>>

\* C10: with no concurrent operation and the default expiry predicate,
\* purge deletes exactly the files with FileTTL > 0 and now - mtime >=
\* FileTTL and leaves every other file in place; with FileTTL = 0 it deletes
\* nothing.
C10_PurgeExact ==
    (Quiet /\ Returned("purge")) =>
        LET r == hist[1]
            Expired(k) == r.pre[k].ex /\ ttl > 0 /\ r.at - r.pre[k].mtime >= ttl
        IN /\ r.err = "nil"
           /\ \A k \in Key : files[k] = IF Expired(k) THEN NoFile ELSE r.pre[k]
           /\ ttl = 0 => files = r.pre

\* a purge removed one file and left a younger one
C10_Witness ==
    /\ Quiet /\ Returned("purge")
    /\ hist[1].acted = <<"a">>
    /\ files["b"].ex
    /\ ttl > 0

Range(q) == {q[i] : i \in 1..Len(q)}

\* the file of k is export-pending: it has no marker, or a marker that is
\* not younger than the file
Pending(k) ==
    /\ files[k].ex
    /\ ~markers[k].ex \/ markers[k].mtime <= files[k].mtime

\* the step is getExportable's walk by process p
ListedBy(p) == pc[p] = "bk_scan" /\ pc'[p] # "bk_scan"

\* the step completes the export of a file by process p: Export returned
\* no error and the marker is written
ExportedBy(p) == pc[p] = "bk_mark" /\ pc'[p] # "bk_mark"

\* C11: getExportable returns exactly the local files whose marker is absent
\* or not after the file's modification time; so a file whose export
\* succeeded is not listed afterwards for as long as it is not modified, and
\* is listed again once it is modified.
C11_ExportDedup ==
    [][/\ \A p \in Proc :
            ListedBy(p) => loc'[p].list = SelectSeq(KeyOrder, Pending)
       /\ \A p \in Proc :
            ExportedBy(p) =>
                LET k == loc[p].list[loc[p].i]
                IN files'[k].ex => k \notin Range(getExportable')
       /\ \A k \in Key :
            (k \notin Range(getExportable) /\ files'[k] = files[k])
                => k \notin Range(getExportable')
       /\ \A k \in Key :
            (files'[k].ex /\ files'[k] # files[k]) => k \in Range(getExportable')
      ]_vars

IsPrefix(q, r) == Len(q) <= Len(r) /\ q = SubSeq(r, 1, Len(q))

\* the backups that entered the job: running ones and returned ones
Backups ==
    {loc[p] : p \in {q \in Proc : pc[q] \in BackupActive /\ loc[q].op = "backup"}}
    \cup {hist[i] : i \in {j \in 1..Len(hist) : hist[j].op = "backup" /\ ~hist[j].busy}}

BackupsReturned ==
    {hist[i] : i \in {j \in 1..Len(hist) : hist[j].op = "backup" /\ ~hist[j].busy}}

\* C12: exportAll makes one Export call per listed file, in the order of the
\* list, and stops at the first file that fails: the files before it have
\* their marker written, the failing file and the files after it get no
\* marker from this run, and no Export call is made for the files after it.
\* A marker is written only after the Export call of its file succeeded.
C12_ExportAllStops ==
    /\ \A r \in Backups :
          /\ IsPrefix(r.acted, r.list)
          /\ IsPrefix(r.marked, r.acted)
          /\ Len(r.acted) <= Len(r.marked) + 1
          /\ r.err # "nil" => pc[r.p] = "bk_ret" \/ r \in BackupsReturned
    /\ \A r \in BackupsReturned :
          /\ r.err = "nil" => r.acted = r.list /\ r.marked = r.list
          /\ r.err = "ErrBackend" =>
                /\ r.acted # <<>>
                /\ r.marked = SubSeq(r.acted, 1, Len(r.acted) - 1)
          /\ r.err \in {"ErrNotExist", "ErrBackendNotSet"} =>
                /\ r.marked = r.acted
                /\ Len(r.acted) < Len(r.list)

\* a backup listed two files, exported the first, and failed on the second
C12_Witness ==
    \E r \in BackupsReturned :
        /\ r.list = <<"a", "b">>
        /\ r.acted = <<"a", "b">>
        /\ r.marked = <<"a">>
        /\ r.err = "ErrBackend"
        /\ markers["a"].ex /\ ~markers["b"].ex

\* the invocations the schedulers dispatched: running ones and returned ones
Dispatched ==
    {loc[p] : p \in {q \in Job : pc[q] # "idle"}}
    \cup {hist[i] : i \in {j \in 1..Len(hist) : hist[j].p \in Job}}

\* C13: once Close has cancelled the context, neither scheduler loop
\* dispatches another purge or backup.
C13_NoTickAfterClose ==
    \A r \in Dispatched : r.ctx = "live"

\* Close returned, and no Export call failed
ClosedCleanly ==
    /\ Returned("Close")
    /\ \A p \in Proc : loc[p].err # "ErrBackend"
    /\ \A i \in 1..Len(hist) : hist[i].err # "ErrBackend"

\* C14: when every Export call succeeds, Close returns nil, and when it
\* returns every local file that existed when Close was called and was not
\* modified since is exported (not export-pending), also when a scheduled
\* backup was running when Close was called.
C14_CloseExports ==
    ClosedCleanly =>
        /\ hist[1].err = "nil"
        /\ \A k \in Key :
              (hist[1].pre[k].ex /\ files[k] = hist[1].pre[k]) => ~Pending(k)

\* the data rows of a file with the given bytes: its rows without the header
RowsOf(data) == IF data = <<>> THEN <<>> ELSE Tail(csvRecords(data, 1))

\* process p runs an AppendWithFunc whose transform scanned the rows, and is
\* about to append the rows the transform returned
AboutToAppend(p) ==
    /\ pc[p] = "awf_write"
    /\ loc[p].fn.scan

\* C15: the rows the transform of AppendWithFunc saw through the scanner are
\* exactly the data rows of the file (header skipped) at the moment the
\* call appends its rows: no row of a concurrent Append or AppendWithFunc
\* of the key lands between the rows read and the rows written.
C15_ReadThenAppendAtomic ==
    \A p \in Proc :
        AboutToAppend(p) =>
            /\ loc[p].seen = RowsOf(hdata(loc[p].h))
            /\ loc[p].size = Len(hdata(loc[p].h))
            /\ hdata(loc[p].h) = files[loc[p].key].data

\* the transform saw the row that another caller appended to the key after
\* this AppendWithFunc was called
C15_Witness ==
    \E p \in Client :
        /\ AboutToAppend(p)
        /\ loc[p].seen # <<>>
        /\ ~loc[p].pre[loc[p].key].ex
        /\ hist # <<>> /\ hist[1].op = "Append" /\ hist[1].p # p

\* the step is the return of a call of op
Returns(op) == Len(hist') = Len(hist) + 1 /\ hist'[1].op = op

\* C16: Append(key) with no entries is a no-op: it returns no error, creates
\* no local file for the key, and leaves every file and marker as it was.
C16_AppendNothing ==
    [][(Returns("Append") /\ hist'[1].es = <<>>) =>
          /\ hist'[1].err = "nil"
          /\ files'[hist'[1].key].ex = files[hist'[1].key].ex
          /\ files' = files
          /\ markers' = markers
          /\ remote' = remote
      ]_vars

\* Append with no entries returned for a key that has no file, next to a key
\* that has a file and a marker
C16_Witness ==
    /\ Returned("Append")
    /\ hist[1].es = <<>>
    /\ hist[1].err = "nil"
    /\ ~files[hist[1].key].ex
    /\ \E k \in Key : files[k].ex /\ markers[k].ex

\* an AppendWithFunc returned whose transform was run and returned an error
\* of its own
TransformFailed ==
    /\ Quiet
    /\ Returned("AppendWithFunc")
    /\ hist[1].fn.fail
    /\ openFile # "error"

\* the bytes of the key's file, none when there is no file
DataOf(dir, k) == IF dir[k].ex THEN dir[k].data ELSE <<>>

\* C17: when the transform passed to AppendWithFunc returns an error,
\* AppendWithFunc returns that error and appends no row, neither header nor
\* value row, to the key's file.
C17_TransformError ==
    /\ TransformFailed =>
          /\ hist[1].err = "ErrFn"
          /\ DataOf(files, hist[1].key) = DataOf(hist[1].pre, hist[1].key)
    /\ (Quiet /\ Returned("AppendWithFunc") /\ hist[1].err \in {"ErrFn", "ErrVisit"}) =>
          DataOf(files, hist[1].key) = DataOf(hist[1].pre, hist[1].key)

\* the transform failed after returning an entry, on a file that has rows
C17_Witness ==
    /\ TransformFailed
    /\ hist[1].es # <<>>
    /\ hist[1].err = "ErrFn"
    /\ files[hist[1].key].data # <<>>
    /\ openFile = "os" /\ disk = "ok"

\* C18: Delete(key) removes the key's local file and nothing else: every
\* other file, every marker (the key's own too) and the backend stay as
\* they are; for a key without a local file it returns an error and changes
\* nothing.
C18_DeleteFrame ==
    [][Returns("Delete") =>
          LET k == hist'[1].key
          IN /\ markers' = markers
             /\ remote' = remote
             /\ files[k].ex =>
                   /\ hist'[1].err = "nil"
                   /\ ~files'[k].ex
                   /\ \A j \in Key \ {k} : files'[j] = files[j]
             /\ ~files[k].ex =>
                   /\ hist'[1].err # "nil"
                   /\ files' = files
      ]_vars

\* Delete removed the file of a key that keeps its marker, next to another
\* key's file
C18_Witness ==
    /\ Returned("Delete")
    /\ hist[1].err = "nil"
    /\ hist[1].pre[hist[1].key].ex
    /\ ~files[hist[1].key].ex
    /\ markers[hist[1].key].ex
    /\ \E k \in Key \ {hist[1].key} : files[k].ex

\* the positions of Append and AppendWithFunc behind getOrCreate
BehindOpen == {"ap_stat", "ap_write", "awf_fn", "awf_stat", "awf_write"}

\* C19: when openFile hands back a closed handle (or fails), getOrCreate
\* returns an error, so Append and AppendWithFunc return an error and do not
\* go on with the handle.
C19_OpenFailsLoudly ==
    openFile # "os" =>
        /\ \A p \in Proc : pc[p] \notin BehindOpen
        /\ \A i \in 1..Len(hist) :
              (hist[i].op = "AppendWithFunc"
                  \/ (hist[i].op = "Append" /\ hist[i].es # <<>>))
              => hist[i].err # "nil"

\* C20: Append and AppendWithFunc return nil only if their rows reached the
\* file: when writing or flushing the rows fails they return an error.
C20_WriteFailureReported ==
    (/\ Quiet
     /\ Returned("Append") \/ Returned("AppendWithFunc")
     /\ hist[1].es # <<>>
     /\ hist[1].err = "nil")
    => LET k == hist[1].key
           old == DataOf(hist[1].pre, k)
       IN files[k].data = old \o entryBytes(Len(old), hist[1].es)

\* an AppendWithFunc whose transform scanned the rows has returned
Scanned == Quiet /\ Returned("AppendWithFunc") /\ hist[1].fn.scan

\* ... and the call before it was the Append that created the key's file
ScannedAppended ==
    /\ Scanned
    /\ Len(hist) >= 2
    /\ hist[2].op = "Append" /\ hist[2].es # <<>>
    /\ hist[2].key = hist[1].key
    /\ ~hist[2].pre[hist[2].key].ex

\* C21: Rows.ForEach starts at the beginning of the file, skips row 0 as the
\* header and invokes visit once per remaining row, in file order; an empty
\* file gives no visit and no error, the end of the data gives no error,
\* and an error of visit stops the scan at that row and is returned.
C21_ForEachRows ==
    /\ (Scanned /\ DataOf(hist[1].pre, hist[1].key) = <<>>) =>
          hist[1].seen = <<>> /\ hist[1].err = "nil"
    /\ ScannedAppended =>
          LET rows == ValuesOf(hist[2].es)
              n == hist[1].fn.stop
          IN IF n = 0 \/ n > Len(rows)
             THEN hist[1].seen = rows /\ hist[1].err = "nil"
             ELSE hist[1].seen = SubSeq(rows, 1, n) /\ hist[1].err = "ErrVisit"

\* the visit failed at the second of two rows
C21_Witness ==
    /\ ScannedAppended
    /\ Len(hist[2].es) = 2
    /\ hist[1].fn.stop = 2
    /\ Len(hist[1].seen) = 2
    /\ hist[1].err = "ErrVisit"

\* a GetMerged returned every key of which it looked at resolved, from the
\* local file or by a download
MergedResolved ==
    /\ Quiet
    /\ Returned("GetMerged")
    /\ \A j \in 1..Len(hist[1].trace) : hist[1].trace[j] \in {"hit", "ok"}

\* C22: GetMerged writes the header row once, that of the first key that
\* resolves, also when that key was downloaded during the call or when a
\* resolved key's file is empty: the output starts with a header whenever a
\* resolved key's file has one, and an empty or just downloaded file does
\* not end the merge with end-of-file.
C22_HeaderOnce ==
    MergedResolved =>
        LET keys == hist[1].keys
            full == {j \in 1..Len(hist[1].trace) : files[keys[j]].data # <<>>}
        IN /\ hist[1].err # "EOF"
           /\ full # {} =>
                 LET first == CHOOSE j \in full : \A i \in full : j <= i
                 IN IsPrefix(csvWrite(HeaderOf(files[keys[first]])), hist[1].out)

\* C23: every local key file that exists once the calls have returned is
\* non-empty and is a header row followed by value rows: no operation
\* leaves a zero-length key file behind.
C23_NoEmptyFile ==
    (Quiet /\ NoFaults) => \A k \in Key : files[k].ex => WellFormed(files[k])

\* a Get whose download failed with an error that is not not-found
FailedGet(rec) == rec.op = "Get" /\ rec.trace = <<"failed">>

\* C24: a Get whose download fails with a backend error other than not-found
\* returns that error and leaves the created file, holding what the backend
\* wrote of the object; a following Get of the same key finds the file,
\* returns no error and the file's bytes, and does not call the backend.
C24_FailedDownloadKept ==
    /\ (Quiet /\ Len(hist) >= 1 /\ FailedGet(hist[1])) =>
          /\ hist[1].err = "ErrBackend"
          /\ hist[1].out = <<>>
          /\ ~hist[1].pre[hist[1].key].ex
          /\ files[hist[1].key].ex
          /\ IsPrefix(files[hist[1].key].data, remote[hist[1].key].data)
    /\ (Quiet /\ Len(hist) >= 2 /\ FailedGet(hist[2])
            /\ hist[1].op = "Get" /\ hist[1].key = hist[2].key) =>
          /\ hist[1].trace = <<"hit">>
          /\ hist[1].err = "nil"
          /\ hist[1].pre = files
          /\ hist[1].out = files[hist[1].key].data

\* a Get returned after a Get of the same key whose download failed having
\* written a part of the object
C24_Witness ==
    /\ Quiet /\ Len(hist) >= 2 /\ FailedGet(hist[2])
    /\ hist[1].op = "Get" /\ hist[1].key = hist[2].key
    /\ hist[1].out # <<>> /\ hist[1].out # remote[hist[1].key].data

\* the processes inside the backend's Import
Importing == {p \in Proc : pc[p] \in {"get_import", "gm_import"}}

\* the key a call resolved at the j-th entry of its trace
KeyAt(rec, j) == IF rec.op = "Get" THEN rec.key ELSE rec.keys[j]

\* how often a call went to the backend for key k with one of the outcomes
ImportsOf(rec, k, outcomes) ==
    Cardinality({j \in 1..Len(rec.trace) :
                    KeyAt(rec, j) = k /\ rec.trace[j] \in outcomes})

RECURSIVE ImportsReturned(_, _, _)
ImportsReturned(i, k, outcomes) ==
    IF i > Len(hist) THEN 0
    ELSE ImportsOf(hist[i], k, outcomes) + ImportsReturned(i + 1, k, outcomes)

RECURSIVE ImportsRunning(_, _, _)
ImportsRunning(ps, k, outcomes) ==
    IF ps = {} THEN 0
    ELSE LET p == CHOOSE q \in ps : TRUE
         IN ImportsOf(loc[p], k, outcomes) + ImportsRunning(ps \ {p}, k, outcomes)

\* the finished Import calls for key k, of returned and of running calls
Imports(k, outcomes) ==
    ImportsReturned(1, k, outcomes) + ImportsRunning(Client, k, outcomes)

\* C25: downloads are serialized: at most one call is inside the backend's
\* Import at any time, and it holds the lock; once an Import for a key
\* succeeded, no other Import is made for that key while its local file
\* stays (concurrent Gets of the key are served from the local file).
C25_DownloadsSerialized ==
    /\ Cardinality(Importing) <= 1
    /\ \A p \in Importing : mux = p
    /\ \A k \in Key :
          Imports(k, {"ok"}) >= 1 =>
             /\ Imports(k, {"ok", "notfound", "failed"}) = 1
             /\ \A p \in Importing : KeyAt(loc[p], Len(loc[p].trace) + 1) # k

\* a Get waits for the lock while another Get of the same key is inside
\* Import, and no local file existed when either of them started
C25_Witness ==
    \E p, q \in Client :
        /\ pc[p] = "get_import" /\ pc[q] = "get_lock"
        /\ loc[p].key = loc[q].key
        /\ ~loc[q].pre[loc[q].key].ex

\* C26: exported state matches local state: whenever a key's marker is newer
\* than its local file (the key is not pending), the bytes last handed to
\* the backend's Export for the key are the bytes of the local file.
C26_ExportedMatchesLocal ==
    \A k \in Key :
        (files[k].ex /\ markers[k].ex /\ markers[k].mtime > files[k].mtime) =>
            (remote[k].ex /\ remote[k].data = files[k].data)

\* C27: purge deletes a file only if the expiry predicate holds for it at
\* the moment of deletion: a file the scan listed and that an Append wrote
\* to before the deletion pass is not deleted.
C27_PurgeOnlyExpired ==
    [][\A k \in Key :
          ((\E p \in Proc : pc[p] = "pg_rm") /\ files[k].ex /\ ~files'[k].ex) =>
              ExpiryMonitor(k, files[k])]_vars

\* the positions at which a process holds emux
ExportActive == {"bk_scan_lock", "bk_scan", "bk_open", "bk_send", "bk_mark", "bk_ret"}

\* the positions at which a process waits for d.mux
WaitsForMux == {"ap_lock", "awf_lock", "get_lock", "gm_lock",
                "pg_scan_lock", "pg_rm_lock", "bk_scan_lock"}

\* a step in which process p takes purgeLock or exportLock
TakesJobLock(p) == (pmux # p /\ pmux' = p) \/ (emux # p /\ emux' = p)

\* C28: the three locks cannot deadlock: no step takes purgeLock or
\* exportLock while its process holds rw, a process holds purgeLock or
\* exportLock only inside purge or backup, every call that started returns
\* in the end, and all three locks are free once all calls have returned.
C28_NoDeadlock ==
    /\ [][\A p \in Proc : TakesJobLock(p) => (mux # p /\ mux' # p)]_vars
    /\ [](\A p \in Proc : /\ (pmux = p <=> (pc[p] \in PurgeActive /\ loc[p].op = "purge"))
                           /\ (emux = p <=> pc[p] \in ExportActive)
                           /\ (mux = p => pc[p] \notin WaitsForMux \cup {"idle"}))
    /\ [](Quiet => (mux = None /\ pmux = None /\ emux = None))
    /\ \A p \in Proc : (pc[p] # "idle") ~> (pc[p] = "idle")

\* a purge holds purgeLock and rw while a backup, holding exportLock, waits
\* for rw
C28_Witness ==
    \E p, q \in Proc :
        /\ pc[p] = "pg_rm" /\ pmux = p /\ mux = p
        /\ pc[q] = "bk_scan_lock" /\ emux = q

====
